---- MODULE Spec2Model ----
(***************************************************************************)
(* The connection-pool registry and the REST handlers of the database      *)
(* administration tool: DatabaseStorage (server/storage.ts) and the        *)
(* routes that call it (server/routes.ts).                                 *)
(*                                                                         *)
(* The server is a single Node.js event loop.  Every handler runs          *)
(* synchronously up to its next await on I/O (the metadata store or a      *)
(* target database); other handlers run while it is suspended.  One action *)
(* of the model is one such synchronous segment; the answer of the outside *)
(* world (a row read, a connect outcome, a query result) is chosen in the  *)
(* segment that receives it.  A statement executed by the metadata store   *)
(* is a step of its own (the *Db actions): the store serialises            *)
(* statements, and the handler continues only later.                       *)
(*                                                                         *)
(* Every request is one entry of `task`; a pool instance is named by the   *)
(* request that constructed it (a request constructs at most one pool).    *)
(***************************************************************************)
EXTENDS Integers, FiniteSets, Sequences, TLC

\* ------------------------------------------------------------------ bounds
\* Requests served in one behaviour (all may be in flight together).
MaxRequests == 3
\* Rows of the largest target table a paginated read is run against.
MaxRows == 25
\* The largest row total the table viewer is shown.
MaxTotal == 120
\* Requests served one after the other when every route is walked.
RouteRequests == 2

Tasks == 1..MaxRequests
\* The profile ids a request may name: the stored profile and the next one.
ProfileIds == {1, 2}
\* The ids of db_connections: the stored profile and one per insert.
AllIds == 1..(MaxRequests + 1)

\* ------------------------------------------------------------ data model
\* A row of db_connections (the columns the handlers read).
ProfileMain ==
    [name |-> "main", host |-> "db1", port |-> 5432, database |-> "app",
     username |-> "admin", password |-> "pw1", ssl |-> FALSE]

\* A profile whose target cannot be reached.
ProfileDown ==
    [name |-> "down", host |-> "down", port |-> 5432, database |-> "app",
     username |-> "admin", password |-> "pw1", ssl |-> FALSE]

\* A second stored profile, on another target.
ProfileSecond ==
    [name |-> "second", host |-> "db2", port |-> 5432, database |-> "app",
     username |-> "admin", password |-> "pw2", ssl |-> TRUE]

\* Request bodies of POST /connections and POST /connections/test.
CreateBodies == {ProfileMain, ProfileDown}

\* Request bodies of PUT /connections/:id (partial profiles).
UpdateBodies == {[host |-> "db2"], [name |-> "renamed"], [host |-> "down"], [port |-> 0]}

NoRow == [absent |-> TRUE]
NoBody == [nobody |-> TRUE]
NoConfig == [noconfig |-> TRUE]

\* The target behind a set of connection details accepts sessions.
Reachable(c) == c.host # "down"

\* The options object handed to `new Pool(...)`.
PoolConfig(connection) ==
    [host |-> connection.host, port |-> connection.port,
     database |-> connection.database, user |-> connection.username,
     password |-> connection.password, ssl |-> connection.ssl]

\* drizzle's .set(partial): the columns present in the partial are replaced.
ApplyUpdate(row, partial) ==
    [f \in DOMAIN row |-> IF f \in DOMAIN partial THEN partial[f] ELSE row[f]]

\* The data operations of DatabaseStorage and the queries each issues in turn.
DataOps == {"listTables", "getTableData"}
AllDataOps == DataOps \cup {"listDatabases", "getTableSchema", "executeQuery"}

\* A schema introspection that stops after the index query.
QueriesOf_SchemaWithoutCount(op) ==
    IF op = "getTableSchema" THEN 4 ELSE IF op = "getTableData" THEN 2 ELSE 1

QueriesOf(op) ==
    IF op = "getTableSchema" THEN 5 ELSE IF op = "getTableData" THEN 2 ELSE 1

\* Messages of errors the driver rejects a query with.
DriverError == "relation does not exist"
PoolEndedError == "Cannot use a pool after calling end on the pool"

\* An executeQuery whose catch block drops the driver's message.
Thrown_WithoutDriverMessage(op, err) ==
    IF op = "executeQuery" THEN "Query execution failed" ELSE err

\* The message of the error a data operation throws when pool.query rejects
\* with err: executeQuery catches and rethrows, the others let it through.
Thrown(op, err) ==
    IF op = "executeQuery" THEN "Query execution failed: " \o err ELSE err

\* ------------------------------------------------------------------ state
VARIABLES
    store,            \* db_connections: id -> row, or NoRow
    nextId,           \* the serial id the next insert gets
    connectionPools,  \* DatabaseStorage.connectionPools: id -> pool, 0 = no entry
    pools,            \* every pool instance constructed so far
    task,             \* the requests: position and locals of each handler
    justEvicted,      \* history: an eviction of p completed and the cache entry
                      \* of p was not touched and not resolved since
    savedQueries,     \* saved_queries: row per creating request, or NoRow
    read,             \* one paginated read: its parameters, statements, result
    server,           \* the listening procedure of the HTTP server at startup
    viewer            \* the page state of the TableViewer component

\* What lies outside the request handlers and the metadata store.
outside == <<read, server, viewer>>

\* What the request handlers and the metadata store work on.
inside == <<store, nextId, connectionPools, pools, task, justEvicted, savedQueries>>

vars == <<store, nextId, connectionPools, pools, task, justEvicted, savedQueries,
          read, server, viewer>>

\* Before a paginated read is requested, before the server starts, and before
\* the viewer is mounted.
NoRead == [pc |-> "none"]
NoServer == [pc |-> "none"]
NoViewer == [pc |-> "none"]

InitOutside == read = NoRead /\ server = NoServer /\ viewer = NoViewer

NoPool == [state |-> "none", probe |-> FALSE, id |-> 0, config |-> NoConfig, endCalls |-> 0]

IdleTask ==
    [op |-> "idle", pc |-> "idle", id |-> 0, body |-> NoBody, conn |-> NoRow,
     pool |-> 0, hit |-> FALSE, next |-> FALSE, nq |-> 0, issued |-> 0, succeeded |-> 0,
     acquired |-> FALSE, probe |-> "none", again |-> FALSE, status |-> 0,
     msg |-> "", found |-> FALSE, result |-> {}, sent |-> 0, json |-> NoBody]

\* The metadata store holds one profile, no saved query; nothing is cached.
InitInside ==
    /\ store = [i \in AllIds |-> IF i = 1 THEN ProfileMain ELSE NoRow]
    /\ nextId = 2
    /\ connectionPools = [i \in AllIds |-> 0]
    /\ pools = [x \in Tasks |-> NoPool]
    /\ task = [t \in Tasks |-> IdleTask]
    /\ justEvicted = [i \in AllIds |-> FALSE]
    /\ savedQueries = [q \in Tasks |-> NoRow]

Init == InitInside /\ InitOutside

\* --------------------------------------------------------------- helpers
\* res.status(s).json({message: m}): a response is sent and the handler ends.
Respond(tk, s, m) ==
    [tk EXCEPT !.pc = "done", !.status = s, !.msg = m, !.body = NoBody,
               !.conn = NoRow, !.nq = 0, !.again = FALSE, !.found = FALSE,
               !.sent = @ + 1]

\* A response that carries the whole stored row.
SafeConnection_Whole(row) == row

\* const { password, ...safeConnection } = connection
SafeConnection(row) == [f \in DOMAIN row \ {"password"} |-> row[f]]

\* { ...conn, password: undefined } as res.json serialises it: JSON.stringify
\* leaves out a key whose value is undefined.
JsonWithUndefined(row, undefinedKeys) ==
    [f \in DOMAIN row \ undefinedKeys |-> row[f]]

\* res.status(s).json(value)
RespondJson(tk, s, value) == [Respond(tk, s, "") EXCEPT !.json = value]

\* pg's Pool.end(): the pool is ending from the call on.
EndCalled(p) == [p EXCEPT !.state = "ended", !.endCalls = @ + 1]

\* How a call of end() on a pool can settle: a pool that is already ending
\* rejects ("Called end on pool more than once"); otherwise the driver
\* resolves it, or rejects it on an error of its own.
EndOutcomes(wasEnded) == IF wasEnded THEN {"fail"} ELSE {"ok", "fail"}

\* How connect() on a fresh pool can settle within connectionTimeoutMillis.
ConnectOutcomes(config) == IF Reachable(config) THEN {"ok", "fail"} ELSE {"fail"}

\* A cache that is not keyed by the profile id.
CacheSet_Unkeyed(cache, id, x) == [i \in DOMAIN cache |-> x]

\* connectionPools.set(connectionId, pool)
CacheSet(cache, id, x) == [cache EXCEPT ![id] = x]

\* connectionPools.delete(id)
CacheDelete(cache, id) == [cache EXCEPT ![id] = 0]

\* Requests are numbered in the order they arrive: request t is the next one.
Arrives(t) == task[t].pc = "idle" /\ \A u \in 1..(t - 1) : task[u].pc # "idle"

\* ------------------------------------------------- getConnectionPool + data
\* pool.query(...) issued by a data operation on the pool it was handed: a pool
\* that is ending rejects at once ("Cannot use a pool after calling end on the
\* pool"), the operation throws and handleError answers 500.
IssueQuery(tk, poolState) ==
    IF poolState = "ended"
    THEN Respond([tk EXCEPT !.issued = @ + 1], 500, Thrown(tk.op, PoolEndedError))
    ELSE [tk EXCEPT !.pc = "query", !.issued = @ + 1]

\* A getConnectionPool without the has() test: every resolution reads the store.
DataStart_NoHasCheck(t, op, id) ==
    /\ Arrives(t)
    /\ task' = [task EXCEPT ![t] =
          [@ EXCEPT !.op = op, !.id = id, !.nq = QueriesOf(op),
                    !.next = justEvicted[id], !.pc = "gcp_read"]]
    /\ justEvicted' = [justEvicted EXCEPT ![id] = FALSE]
    /\ UNCHANGED <<store, nextId, savedQueries, outside, connectionPools, pools>>

\* GET /tables/:connectionId, GET /data/:connectionId/:table: the handler calls
\* the data operation, which calls getConnectionPool.  On a cache hit the pool
\* is returned and the first query issued; on a miss getConnection is awaited.
DataStart(t, op, id) ==
    /\ Arrives(t)
    /\ LET tk == [task[t] EXCEPT !.op = op, !.id = id, !.nq = QueriesOf(op),
                                 !.next = justEvicted[id]]
       IN IF connectionPools[id] # 0
          THEN task' = [task EXCEPT ![t] =
                    IssueQuery([tk EXCEPT !.pool = connectionPools[id], !.hit = TRUE],
                               pools[connectionPools[id]].state)]
          ELSE task' = [task EXCEPT ![t] = [tk EXCEPT !.pc = "gcp_read"]]
    /\ justEvicted' = [justEvicted EXCEPT ![id] = FALSE]
    /\ UNCHANGED <<store, nextId, savedQueries, outside, connectionPools, pools>>

\* The metadata store executes getConnection's select.
GcpReadDb(t) ==
    /\ task[t].pc = "gcp_read"
    /\ task' = [task EXCEPT ![t] = [@ EXCEPT !.conn = store[task[t].id], !.pc = "gcp_cont"]]
    /\ UNCHANGED <<store, nextId, savedQueries, outside, connectionPools, pools, justEvicted>>

\* A getConnectionPool that constructs and stores the pool before it looks at
\* the row it read.
GcpCont_ConstructsFirst(t) ==
    /\ task[t].pc = "gcp_cont"
    /\ pools' = [pools EXCEPT ![t] =
          [state |-> "open", probe |-> FALSE, id |-> task[t].id,
           config |-> IF task[t].conn = NoRow THEN NoConfig ELSE PoolConfig(task[t].conn),
           endCalls |-> 0]]
    /\ connectionPools' = CacheSet(connectionPools, task[t].id, t)
    /\ justEvicted' = [justEvicted EXCEPT ![task[t].id] = FALSE]
    /\ task' = [task EXCEPT ![t] =
          IF task[t].conn = NoRow THEN Respond(@, 500, "Connection not found")
          ELSE IssueQuery([@ EXCEPT !.pool = t], "open")]
    /\ UNCHANGED <<store, nextId, savedQueries, outside>>

\* getConnectionPool after the read: no row throws; otherwise a pool is
\* constructed from the row read, stored in the cache and returned, and the
\* data operation issues its first query on it.
GcpCont(t) ==
    /\ task[t].pc = "gcp_cont"
    /\ IF task[t].conn = NoRow
       THEN /\ task' = [task EXCEPT ![t] = Respond(@, 500, "Connection not found")]
            /\ UNCHANGED <<connectionPools, pools, justEvicted>>
       ELSE /\ pools' = [pools EXCEPT ![t] =
                    [state |-> "open", probe |-> FALSE, id |-> task[t].id,
                     config |-> PoolConfig(task[t].conn), endCalls |-> 0]]
            /\ connectionPools' = CacheSet(connectionPools, task[t].id, t)
            /\ justEvicted' = [justEvicted EXCEPT ![task[t].id] = FALSE]
            /\ task' = [task EXCEPT ![t] = IssueQuery([@ EXCEPT !.pool = t], "open")]
    /\ UNCHANGED <<store, nextId, savedQueries, outside>>

\* A query settles: on an error the operation throws (500); otherwise the next
\* query is issued on the same pool, or the result is sent.
QueryDone(t, outcome) ==
    /\ task[t].pc = "query"
    /\ task' = [task EXCEPT ![t] =
          IF outcome = "fail" THEN Respond(@, 500, Thrown(@.op, DriverError))
          ELSE IF @.nq > 1
               THEN IssueQuery([@ EXCEPT !.nq = @ - 1, !.succeeded = @ + 1],
                               pools[@.pool].state)
          ELSE Respond([@ EXCEPT !.succeeded = @ + 1], 200, "")]
    /\ UNCHANGED <<store, nextId, savedQueries, outside, connectionPools, pools, justEvicted>>

\* --------------------------------------------------------- deleteConnection
\* DELETE /connections/:id: the handler calls deleteConnection, which awaits
\* the delete statement.
DeleteStart(t, id) ==
    /\ Arrives(t)
    /\ task' = [task EXCEPT ![t] = [@ EXCEPT !.op = "delete", !.id = id, !.pc = "del_db"]]
    /\ UNCHANGED <<store, nextId, savedQueries, outside, connectionPools, pools, justEvicted>>

\* A schema whose reference has no ON DELETE action on the saved queries.
OnDelete_KeepsRows(rows, id) == rows

\* saved_queries.connection_id references db_connections.id with ON DELETE
\* CASCADE: the delete of a profile removes the saved queries that point at it.
OnDeleteCascade(rows, id) ==
    [q \in DOMAIN rows |->
        IF rows[q] # NoRow /\ rows[q].connectionId = id THEN NoRow ELSE rows[q]]

\* The metadata store executes the delete ... returning.
DeleteDb(t) ==
    /\ task[t].pc = "del_db"
    /\ store' = [store EXCEPT ![task[t].id] = NoRow]
    /\ savedQueries' = OnDeleteCascade(savedQueries, task[t].id)
    /\ task' = [task EXCEPT ![t] =
          [@ EXCEPT !.found = (store[task[t].id] # NoRow), !.pc = "del_cont"]]
    /\ UNCHANGED <<nextId, outside, connectionPools, pools, justEvicted>>

\* A handler whose 404 branch does not return: 204 is sent after it.
DeleteResponse_NoReturn(tk) ==
    IF tk.found THEN Respond(tk, 204, "")
    ELSE Respond(Respond(tk, 404, "Connection not found"), 204, "")

\* The handler's answer to deleteConnection's boolean.
DeleteResponse(tk) ==
    IF tk.found THEN Respond(tk, 204, "") ELSE Respond(tk, 404, "Connection not found")

\* deleteConnection after the statement: a cached pool is taken from the cache
\* and end() is called on it and awaited; with no cached pool the call returns.
DeleteCont(t) ==
    /\ task[t].pc = "del_cont"
    /\ IF connectionPools[task[t].id] # 0
       THEN /\ pools' = [pools EXCEPT ![connectionPools[task[t].id]] = EndCalled(@)]
            /\ task' = [task EXCEPT ![t] =
                  [@ EXCEPT !.pool = connectionPools[task[t].id],
                            !.again = (pools[connectionPools[task[t].id]].state = "ended"),
                            !.pc = "del_end"]]
            /\ UNCHANGED justEvicted
       ELSE /\ task' = [task EXCEPT ![t] = DeleteResponse(@)]
            /\ justEvicted' = [justEvicted EXCEPT ![task[t].id] = TRUE]
            /\ UNCHANGED pools
    /\ UNCHANGED <<store, nextId, savedQueries, outside, connectionPools>>

\* end() settles: resolved, the cache entry of the id is deleted and the call
\* returns; rejected, deleteConnection throws past the delete (500).
DeleteEnd(t, outcome) ==
    /\ task[t].pc = "del_end"
    /\ outcome \in EndOutcomes(task[t].again)
    /\ IF outcome = "ok"
       THEN /\ connectionPools' = CacheDelete(connectionPools, task[t].id)
            /\ justEvicted' = [justEvicted EXCEPT ![task[t].id] = TRUE]
            /\ task' = [task EXCEPT ![t] = DeleteResponse(@)]
       ELSE /\ task' = [task EXCEPT ![t] = Respond(@, 500, "end failed")]
            /\ UNCHANGED <<connectionPools, justEvicted>>
    /\ UNCHANGED <<store, nextId, savedQueries, outside, pools>>

\* ----------------------------------------------------------- testConnection
\* `new Pool({... connectionTimeoutMillis: 5000})`: the probe's own pool.
ProbePool(connection) ==
    [state |-> "open", probe |-> TRUE, id |-> 0, config |-> PoolConfig(connection),
     endCalls |-> 0]

\* A prober that closes its pool only after a successful acquisition.
ProbeAfterConnect_NoEndInCatch(p, outcome) == IF outcome = "ok" THEN EndCalled(p) ELSE p

\* The probe pool once connect() has settled: acquired, the session is released
\* and end() is called in the try block; otherwise end() is called in the catch
\* block.
ProbeAfterConnect(p, outcome) == EndCalled(p)

\* The probe pool once the try block's end() has settled: rejected, the catch
\* block calls end() once more.
ProbeAfterEnd(p, outcome) == IF outcome = "ok" THEN p ELSE EndCalled(p)

\* A prober whose catch block does not guard its own end().
ProbeResult_ThrowsFromCatch(acquired, endOutcome, inCatch) ==
    IF inCatch
    THEN IF endOutcome = "fail" THEN "throw" ELSE "false"
    ELSE IF acquired /\ endOutcome = "ok" THEN "true" ELSE "false"

\* What testConnection returns: true at the end of the try block, false at the
\* end of the catch block, whose own end() is wrapped in a try/catch.
ProbeResult(acquired, endOutcome, inCatch) ==
    IF inCatch THEN "false" ELSE IF acquired /\ endOutcome = "ok" THEN "true" ELSE "false"

\* The handler after `await storage.testConnection(...)`: the value is not
\* read; only a rejection would reach the handler's catch block (400).
AfterProbe(tk, result) ==
    LET r == [tk EXCEPT !.probe = result]
    IN IF result = "throw" THEN Respond(r, 400, "Failed to connect to database")
       ELSE IF tk.op = "test" THEN Respond(r, 200, "success")
       ELSE IF tk.op = "create" THEN [r EXCEPT !.pc = "ins_db"]
       ELSE [r EXCEPT !.pc = "upd_db"]

\* A prober that keeps its pool in the registry.
ProbeBegin_Registers(t, tk, connection) ==
    /\ pools' = [pools EXCEPT ![t] = ProbePool(connection)]
    /\ task' = [task EXCEPT ![t] = [tk EXCEPT !.pool = t, !.pc = "probe_connect"]]
    /\ connectionPools' = CacheSet(connectionPools, IF tk.id = 0 THEN nextId ELSE tk.id, t)
    /\ UNCHANGED <<store, nextId, savedQueries, outside, justEvicted>>

\* testConnection up to its first await: the pool is constructed and connect()
\* is called.
ProbeBegin(t, tk, connection) ==
    /\ pools' = [pools EXCEPT ![t] = ProbePool(connection)]
    /\ task' = [task EXCEPT ![t] = [tk EXCEPT !.pool = t, !.pc = "probe_connect"]]
    /\ UNCHANGED <<store, nextId, savedQueries, outside, connectionPools, justEvicted>>

\* connect() settles.
ProbeConnect(t, outcome) ==
    /\ task[t].pc = "probe_connect"
    /\ outcome \in ConnectOutcomes(pools[t].config)
    /\ pools' = [pools EXCEPT ![t] = ProbeAfterConnect(@, outcome)]
    /\ task' = [task EXCEPT ![t] =
          [@ EXCEPT !.acquired = (outcome = "ok"),
                    !.pc = IF outcome = "ok" THEN "probe_end_try" ELSE "probe_end_catch"]]
    /\ UNCHANGED <<store, nextId, savedQueries, outside, connectionPools, justEvicted>>

\* The try block's end() settles.
ProbeEndTry(t, outcome) ==
    /\ task[t].pc = "probe_end_try"
    /\ outcome \in EndOutcomes(task[t].again)
    /\ pools' = [pools EXCEPT ![t] = ProbeAfterEnd(@, outcome)]
    /\ task' = [task EXCEPT ![t] =
          IF outcome = "ok"
          THEN AfterProbe(@, ProbeResult(@.acquired, outcome, FALSE))
          ELSE [@ EXCEPT !.again = TRUE, !.pc = "probe_end_catch"]]
    /\ UNCHANGED <<store, nextId, savedQueries, outside, connectionPools, justEvicted>>

\* The catch block's end() settles; a rejection is logged.
ProbeEndCatch(t, outcome) ==
    /\ task[t].pc = "probe_end_catch"
    /\ outcome \in EndOutcomes(task[t].again)
    /\ task' = [task EXCEPT ![t] = AfterProbe(@, ProbeResult(@.acquired, outcome, TRUE))]
    /\ UNCHANGED <<store, nextId, savedQueries, outside, connectionPools, pools, justEvicted>>

\* ---------------------------------------------------------------- handlers
\* POST /connections/test: the body is parsed and probed.
TestStart(t, body) ==
    /\ Arrives(t)
    /\ ProbeBegin(t, [task[t] EXCEPT !.op = "test", !.body = body], body)

\* POST /connections: the body is parsed and probed, then inserted.
CreateStart(t, body) ==
    /\ Arrives(t)
    /\ ProbeBegin(t, [task[t] EXCEPT !.op = "create", !.body = body], body)

\* createConnection: the metadata store executes the insert; the row comes
\* back without its password (201).
CreateDb(t) ==
    /\ task[t].pc = "ins_db"
    /\ store' = [store EXCEPT ![nextId] = task[t].body]
    /\ nextId' = nextId + 1
    /\ task' = [task EXCEPT ![t] =
          RespondJson([@ EXCEPT !.id = nextId], 201, SafeConnection(task[t].body))]
    /\ UNCHANGED <<connectionPools, pools, justEvicted, savedQueries, outside>>

\* JavaScript truthiness of a column value.
Truthy(f, v) == IF f = "port" THEN v # 0 ELSE IF f = "ssl" THEN v ELSE v # ""

TruthyIn(partial, f) == f \in DOMAIN partial /\ Truthy(f, partial[f])

\* The condition under which PUT probes before it updates.
ConnectionChanging(u) ==
    \/ TruthyIn(u, "host") \/ TruthyIn(u, "port") \/ TruthyIn(u, "database")
    \/ TruthyIn(u, "username") \/ TruthyIn(u, "password") \/ "ssl" \in DOMAIN u

\* updateData.f || currentConnection.f
OrCurrent(u, cur, f) == IF TruthyIn(u, f) THEN u[f] ELSE cur[f]

\* The profile PUT probes: the stored row overlaid with the update.
MergedForTest(u, cur) ==
    [name |-> OrCurrent(u, cur, "name"), host |-> OrCurrent(u, cur, "host"),
     port |-> OrCurrent(u, cur, "port"), database |-> OrCurrent(u, cur, "database"),
     username |-> OrCurrent(u, cur, "username"),
     password |-> OrCurrent(u, cur, "password"),
     ssl |-> IF "ssl" \in DOMAIN u THEN u.ssl ELSE cur.ssl]

\* PUT /connections/:id: the body is parsed; a change of connection details
\* first reads the stored row, any other update goes to updateConnection.
UpdateStart(t, id, u) ==
    /\ Arrives(t)
    /\ task' = [task EXCEPT ![t] =
          [@ EXCEPT !.op = "update", !.id = id, !.body = u,
                    !.pc = IF ConnectionChanging(u) THEN "put_read" ELSE "upd_db"]]
    /\ UNCHANGED <<store, nextId, savedQueries, outside, connectionPools, pools, justEvicted>>

\* The metadata store executes PUT's getConnection.
UpdateReadDb(t) ==
    /\ task[t].pc = "put_read"
    /\ task' = [task EXCEPT ![t] = [@ EXCEPT !.conn = store[task[t].id], !.pc = "put_cont"]]
    /\ UNCHANGED <<store, nextId, savedQueries, outside, connectionPools, pools, justEvicted>>

\* PUT after the read: no row answers 404, otherwise the merged profile is
\* probed.
UpdateProbe(t) ==
    /\ task[t].pc = "put_cont"
    /\ IF task[t].conn = NoRow
       THEN /\ task' = [task EXCEPT ![t] = Respond(@, 404, "Connection not found")]
            /\ UNCHANGED <<store, nextId, savedQueries, outside, connectionPools, pools, justEvicted>>
       ELSE ProbeBegin(t, task[t], MergedForTest(task[t].body, task[t].conn))

\* updateConnection: the metadata store executes update ... set ... returning.
UpdateDb(t) ==
    /\ task[t].pc = "upd_db"
    /\ store' = [store EXCEPT ![task[t].id] =
                    IF @ = NoRow THEN NoRow ELSE ApplyUpdate(@, task[t].body)]
    /\ task' = [task EXCEPT ![t] =
          [@ EXCEPT !.found = (store[task[t].id] # NoRow),
                    !.conn = store'[task[t].id], !.pc = "upd_cont"]]
    /\ UNCHANGED <<nextId, savedQueries, outside, connectionPools, pools, justEvicted>>

\* An update that leaves the cached pool in place.
UpdateEvict_Keeps(cache, id) == cache

\* The cache after updateConnection's statement: an entry of the id is deleted.
UpdateEvict(cache, id) == IF cache[id] # 0 THEN CacheDelete(cache, id) ELSE cache

\* updateConnection after the statement, and the handler's answer to the row.
UpdateCont(t) ==
    /\ task[t].pc = "upd_cont"
    /\ connectionPools' = UpdateEvict(connectionPools, task[t].id)
    /\ justEvicted' = [justEvicted EXCEPT ![task[t].id] = TRUE]
    /\ task' = [task EXCEPT ![t] =
          IF @.found THEN RespondJson(@, 200, SafeConnection(@.conn))
          ELSE Respond(@, 404, "Connection not found")]
    /\ UNCHANGED <<store, nextId, savedQueries, outside, pools>>

Outcomes == {"ok", "fail"}

Next ==
    \/ \E t \in Tasks, op \in DataOps, id \in ProfileIds : DataStart(t, op, id)
    \/ \E t \in Tasks : GcpReadDb(t)
    \/ \E t \in Tasks : GcpCont(t)
    \/ \E t \in Tasks, o \in Outcomes : QueryDone(t, o)
    \/ \E t \in Tasks, id \in ProfileIds : DeleteStart(t, id)
    \/ \E t \in Tasks : DeleteDb(t)
    \/ \E t \in Tasks : DeleteCont(t)
    \/ \E t \in Tasks, o \in Outcomes : DeleteEnd(t, o)
    \/ \E t \in Tasks, b \in CreateBodies : TestStart(t, b)
    \/ \E t \in Tasks, b \in CreateBodies : CreateStart(t, b)
    \/ \E t \in Tasks, o \in Outcomes : ProbeConnect(t, o)
    \/ \E t \in Tasks, o \in Outcomes : ProbeEndTry(t, o)
    \/ \E t \in Tasks, o \in Outcomes : ProbeEndCatch(t, o)
    \/ \E t \in Tasks : CreateDb(t)
    \/ \E t \in Tasks, id \in ProfileIds, u \in UpdateBodies : UpdateStart(t, id, u)
    \/ \E t \in Tasks : UpdateReadDb(t)
    \/ \E t \in Tasks : UpdateProbe(t)
    \/ \E t \in Tasks : UpdateDb(t)
    \/ \E t \in Tasks : UpdateCont(t)

Spec == Init /\ [][Next]_vars

\* The registry under the requests that resolve and evict its entries: data
\* requests, deletes, and updates whose body does not make PUT probe.
NextRegistry ==
    \/ \E t \in Tasks, id \in ProfileIds : DataStart(t, "getTableData", id)
    \/ \E t \in Tasks : GcpReadDb(t)
    \/ \E t \in Tasks : GcpCont(t)
    \/ \E t \in Tasks : QueryDone(t, "ok")
    \/ \E t \in Tasks, id \in ProfileIds : DeleteStart(t, id)
    \/ \E t \in Tasks : DeleteDb(t)
    \/ \E t \in Tasks : DeleteCont(t)
    \/ \E t \in Tasks, o \in Outcomes : DeleteEnd(t, o)
    \/ \E t \in Tasks, id \in ProfileIds : UpdateStart(t, id, [name |-> "renamed"])
    \/ \E t \in Tasks : UpdateDb(t)
    \/ \E t \in Tasks : UpdateCont(t)

SpecRegistry == Init /\ [][NextRegistry]_vars

\* The data operations beside deletes: every operation that resolves a pool
\* and queries through it, with queries that succeed or fail.
NextQuery ==
    \E t \in Tasks :
        \/ \E op \in AllDataOps, id \in ProfileIds : DataStart(t, op, id)
        \/ GcpReadDb(t)
        \/ GcpCont(t)
        \/ \E outcome \in Outcomes : QueryDone(t, outcome)
        \/ DeleteStart(t, 1)
        \/ DeleteDb(t)
        \/ DeleteCont(t)
        \/ \E outcome \in Outcomes : DeleteEnd(t, outcome)

SpecQuery == Init /\ [][NextQuery]_vars

\* POST /query/:connectionId beside deletes of the profile it queries through.
NextExecute ==
    \E t \in Tasks :
        \/ \E id \in ProfileIds : DataStart(t, "executeQuery", id)
        \/ GcpReadDb(t)
        \/ GcpCont(t)
        \/ \E outcome \in Outcomes : QueryDone(t, outcome)
        \/ DeleteStart(t, 1)
        \/ DeleteDb(t)
        \/ DeleteCont(t)
        \/ \E outcome \in Outcomes : DeleteEnd(t, outcome)

SpecExecute == Init /\ [][NextExecute]_vars

\* GET /schema/:connectionId/:table on its own.
NextSchema ==
    \E t \in Tasks :
        \/ \E id \in ProfileIds : DataStart(t, "getTableSchema", id)
        \/ GcpReadDb(t)
        \/ GcpCont(t)
        \/ \E outcome \in Outcomes : QueryDone(t, outcome)

SpecSchema == Init /\ [][NextSchema]_vars

\* The metadata store holds two profiles when the server starts.
InitTwo ==
    /\ store = [i \in AllIds |-> IF i = 1 THEN ProfileMain
                                 ELSE IF i = 2 THEN ProfileSecond ELSE NoRow]
    /\ nextId = 3
    /\ connectionPools = [i \in AllIds |-> 0]
    /\ pools = [x \in Tasks |-> NoPool]
    /\ task = [t \in Tasks |-> IdleTask]
    /\ justEvicted = [i \in AllIds |-> FALSE]
    /\ savedQueries = [q \in Tasks |-> NoRow]
    /\ InitOutside

\* The registry of a server with two stored profiles.
SpecTwoProfiles == InitTwo /\ [][NextRegistry]_vars

\* The prober under POST /connections/test and POST /connections, beside data
\* requests that resolve the pool of the stored profile.
NextProbe ==
    \/ \E t \in Tasks : DataStart(t, "listTables", 1)
    \/ \E t \in Tasks : GcpReadDb(t)
    \/ \E t \in Tasks : GcpCont(t)
    \/ \E t \in Tasks : QueryDone(t, "ok")
    \/ \E t \in Tasks, b \in CreateBodies : TestStart(t, b)
    \/ \E t \in Tasks, b \in CreateBodies : CreateStart(t, b)
    \/ \E t \in Tasks, o \in Outcomes : ProbeConnect(t, o)
    \/ \E t \in Tasks, o \in Outcomes : ProbeEndTry(t, o)
    \/ \E t \in Tasks, o \in Outcomes : ProbeEndCatch(t, o)
    \/ \E t \in Tasks : CreateDb(t)

SpecProbe == Init /\ [][NextProbe]_vars

\* ------------------------------------------------------------ saved queries
\* The connection_id of a saved query that belongs to no profile (NULL).
NoConnection == 0

\* The connection ids saved-query requests carry: none, the stored profiles,
\* and an id no profile has.
SavedConnectionIds == {NoConnection} \cup ProfileIds \cup {MaxRequests + 1}

ForeignKeyError == "violates foreign key constraint"

\* The reference of saved_queries.connection_id: NULL, or a stored profile.
ForeignKeyHolds(rows, connectionId) ==
    connectionId = NoConnection \/ rows[connectionId] # NoRow

\* POST /saved-queries: the body is parsed and createSavedQuery awaited.
CreateSavedQueryStart(t, connectionId) ==
    /\ Arrives(t)
    /\ task' = [task EXCEPT ![t] =
          [@ EXCEPT !.op = "createSavedQuery", !.pc = "sq_insert",
                    !.body = [name |-> "report", query |-> "select 1",
                              connectionId |-> connectionId]]]
    /\ UNCHANGED <<store, nextId, connectionPools, pools, justEvicted, savedQueries, outside>>

\* The metadata store executes the insert, or rejects it on the reference.
CreateSavedQueryDb(t) ==
    /\ task[t].pc = "sq_insert"
    /\ IF ForeignKeyHolds(store, task[t].body.connectionId)
       THEN /\ savedQueries' = [savedQueries EXCEPT ![t] = task[t].body]
            /\ task' = [task EXCEPT ![t] = Respond([@ EXCEPT !.id = t], 201, "")]
       ELSE /\ task' = [task EXCEPT ![t] = Respond(@, 500, ForeignKeyError)]
            /\ UNCHANGED savedQueries
    /\ UNCHANGED <<store, nextId, connectionPools, pools, justEvicted, outside>>

\* PUT /saved-queries/:id with a new connectionId.
UpdateSavedQueryStart(t, id, connectionId) ==
    /\ Arrives(t)
    /\ task' = [task EXCEPT ![t] =
          [@ EXCEPT !.op = "updateSavedQuery", !.pc = "sq_update", !.id = id,
                    !.body = [connectionId |-> connectionId]]]
    /\ UNCHANGED <<store, nextId, connectionPools, pools, justEvicted, savedQueries, outside>>

\* The metadata store executes the update: no row (404), a rejected reference,
\* or the row with the partial applied.
UpdateSavedQueryDb(t) ==
    /\ task[t].pc = "sq_update"
    /\ IF savedQueries[task[t].id] = NoRow
       THEN /\ task' = [task EXCEPT ![t] = Respond(@, 404, "Query not found")]
            /\ UNCHANGED savedQueries
       ELSE IF ForeignKeyHolds(store, task[t].body.connectionId)
       THEN /\ savedQueries' = [savedQueries EXCEPT ![task[t].id] = ApplyUpdate(@, task[t].body)]
            /\ task' = [task EXCEPT ![t] = Respond(@, 200, "")]
       ELSE /\ task' = [task EXCEPT ![t] = Respond(@, 500, ForeignKeyError)]
            /\ UNCHANGED savedQueries
    /\ UNCHANGED <<store, nextId, connectionPools, pools, justEvicted, outside>>

\* DELETE /saved-queries/:id
DeleteSavedQueryStart(t, id) ==
    /\ Arrives(t)
    /\ task' = [task EXCEPT ![t] =
          [@ EXCEPT !.op = "deleteSavedQuery", !.pc = "sq_delete", !.id = id]]
    /\ UNCHANGED <<store, nextId, connectionPools, pools, justEvicted, savedQueries, outside>>

DeleteSavedQueryDb(t) ==
    /\ task[t].pc = "sq_delete"
    /\ savedQueries' = [savedQueries EXCEPT ![task[t].id] = NoRow]
    /\ task' = [task EXCEPT ![t] =
          IF savedQueries[task[t].id] = NoRow THEN Respond(@, 404, "Query not found")
          ELSE Respond(@, 204, "")]
    /\ UNCHANGED <<store, nextId, connectionPools, pools, justEvicted, outside>>

\* GET /saved-queries[?connectionId=...]: the id is 0 when the parameter is
\* absent.
GetSavedQueriesStart(t, connectionId) ==
    /\ Arrives(t)
    /\ task' = [task EXCEPT ![t] =
          [@ EXCEPT !.op = "getSavedQueries", !.pc = "sq_select", !.id = connectionId]]
    /\ UNCHANGED <<store, nextId, connectionPools, pools, justEvicted, savedQueries, outside>>

\* getSavedQueries: `if (connectionId)` selects the rows of that profile,
\* otherwise all rows.
GetSavedQueriesDb(t) ==
    /\ task[t].pc = "sq_select"
    /\ task' = [task EXCEPT ![t] =
          Respond([@ EXCEPT !.result =
                      {q \in Tasks : /\ savedQueries[q] # NoRow
                                     /\ (task[t].id # 0
                                         => savedQueries[q].connectionId = task[t].id)}],
                  200, "")]
    /\ UNCHANGED <<store, nextId, connectionPools, pools, justEvicted, savedQueries, outside>>

\* GET /saved-queries/:id
GetSavedQueryStart(t, id) ==
    /\ Arrives(t)
    /\ task' = [task EXCEPT ![t] =
          [@ EXCEPT !.op = "getSavedQuery", !.pc = "sq_get", !.id = id]]
    /\ UNCHANGED <<store, nextId, connectionPools, pools, justEvicted, savedQueries, outside>>

\* getSavedQuery: no row is answered 404, a row is sent.
GetSavedQueryDb(t) ==
    /\ task[t].pc = "sq_get"
    /\ task' = [task EXCEPT ![t] =
          IF savedQueries[task[t].id] = NoRow THEN Respond(@, 404, "Query not found")
          ELSE RespondJson(@, 200, savedQueries[task[t].id])]
    /\ UNCHANGED <<store, nextId, connectionPools, pools, justEvicted, savedQueries, outside>>

\* The saved-query routes beside deletes of profiles.  A request names the
\* saved query of an earlier request.
NextSaved ==
    \E t \in Tasks :
        \/ \E c \in SavedConnectionIds \ {2} : CreateSavedQueryStart(t, c)
        \/ CreateSavedQueryDb(t)
        \/ \E q \in 1..(t - 1), c \in SavedConnectionIds \ {NoConnection, 1} :
              UpdateSavedQueryStart(t, q, c)
        \/ UpdateSavedQueryDb(t)
        \/ \E q \in 1..(t - 1) : DeleteSavedQueryStart(t, q)
        \/ DeleteSavedQueryDb(t)
        \/ \E c \in {0, 1} : GetSavedQueriesStart(t, c)
        \/ GetSavedQueriesDb(t)
        \/ \E id \in ProfileIds : DeleteStart(t, id)
        \/ DeleteDb(t)
        \/ DeleteCont(t)

SpecSaved == InitTwo /\ [][NextSaved]_vars

\* ------------------------------------------------------------------- routes
\* A JSON value of a request body, tagged with the type it has on the wire.
Json(type, value) == [k \in {type} |-> value]
JsonType(v) == CHOOSE k \in DOMAIN v : TRUE
JsonValue(v) == v[JsonType(v)]

\* The columns insertDbConnectionSchema keeps of db_connections.
Columns == {"name", "host", "port", "database", "username", "password", "ssl"}

\* The JSON type the schema wants of a column: text, integer, boolean.
ColumnType(f) ==
    IF f = "port" THEN "number" ELSE IF f = "ssl" THEN "boolean" ELSE "string"

\* notNull columns without a default: the schema requires them.
RequiredColumns == {"name", "host", "database", "username", "password"}

\* The request body a client sends for a profile.
RawOf(body) == [f \in DOMAIN body |-> Json(ColumnType(f), body[f])]

\* A schema that checks presence and not the types of the values.
SchemaAccepts_Untyped(raw, partial) == partial \/ RequiredColumns \subseteq DOMAIN raw

\* insertDbConnectionSchema.parse(body) does not throw; with partial, it is
\* insertDbConnectionSchema.partial().parse(body).
SchemaAccepts(raw, partial) ==
    /\ partial \/ RequiredColumns \subseteq DOMAIN raw
    /\ \A f \in DOMAIN raw \cap Columns : JsonType(raw[f]) = ColumnType(f)

\* What parse returns: the schema's keys of the body, unknown keys stripped.
Parsed(raw) == [f \in DOMAIN raw \cap Columns |-> JsonValue(raw[f])]

\* Malformed bodies of POST /connections and POST /connections/test: a
\* profile without host, a profile whose port is a string.
BadCreateBodies ==
    { [f \in DOMAIN ProfileMain \ {"host"} |-> RawOf(ProfileMain)[f]],
      [RawOf(ProfileMain) EXCEPT !.port = Json("string", "5432")] }

\* Bodies of POST /connections and POST /connections/test.
RawCreateBodies == {RawOf(ProfileMain), RawOf(ProfileDown)} \cup BadCreateBodies

\* Malformed bodies of PUT /connections/:id: a name that is a number, an ssl
\* that is a string.
BadUpdateBodies == { [name |-> Json("number", 5)], [ssl |-> Json("string", "yes")] }

\* Bodies of PUT /connections/:id.
RawUpdateBodies ==
    {RawOf([host |-> "db2"]), RawOf([name |-> "renamed"])} \cup BadUpdateBodies

\* Bodies of POST /query/:connectionId the handler has no query in: no query
\* key, a number, the empty string.
BadQueryBodies ==
    { [sql |-> Json("string", "select 1")], [query |-> Json("number", 5)],
      [query |-> Json("string", "")] }

\* Bodies of POST /query/:connectionId.
RawQueryBodies == {[query |-> Json("string", "select 1")]} \cup BadQueryBodies

\* A handler that looks for the key only.
QueryGiven_KeyOnly(raw) == "query" \in DOMAIN raw

\* !(!query || typeof query !== 'string')
QueryGiven(raw) ==
    /\ "query" \in DOMAIN raw
    /\ JsonType(raw.query) = "string"
    /\ JsonValue(raw.query) # ""

\* handleError on a ZodError.
ValidationError(t, op) ==
    /\ Arrives(t)
    /\ task' = [task EXCEPT ![t] = Respond([@ EXCEPT !.op = op], 400, "Validation error")]
    /\ UNCHANGED <<store, nextId, savedQueries, outside, connectionPools, pools, justEvicted>>

\* POST /connections: the body is parsed before anything else.
PostConnections(t, raw) ==
    IF SchemaAccepts(raw, FALSE) THEN CreateStart(t, Parsed(raw))
    ELSE ValidationError(t, "create")

\* POST /connections/test
PostConnectionsTest(t, raw) ==
    IF SchemaAccepts(raw, FALSE) THEN TestStart(t, Parsed(raw))
    ELSE ValidationError(t, "test")

\* PUT /connections/:id
PutConnections(t, id, raw) ==
    IF SchemaAccepts(raw, TRUE) THEN UpdateStart(t, id, Parsed(raw))
    ELSE ValidationError(t, "update")

\* POST /query/:connectionId
PostQuery(t, id, raw) ==
    IF QueryGiven(raw) THEN DataStart(t, "executeQuery", id)
    ELSE /\ Arrives(t)
         /\ task' = [task EXCEPT ![t] =
               Respond([@ EXCEPT !.op = "executeQuery"], 400, "Query is required")]
         /\ UNCHANGED <<store, nextId, savedQueries, outside, connectionPools, pools,
                        justEvicted>>

\* GET /connections up to the await of storage.getConnections().
GetConnectionsStart(t) ==
    /\ Arrives(t)
    /\ task' = [task EXCEPT ![t] = [@ EXCEPT !.op = "list", !.pc = "list_db"]]
    /\ UNCHANGED <<store, nextId, savedQueries, outside, connectionPools, pools, justEvicted>>

\* The metadata store answers getConnections; every row is sent with its
\* password set to undefined.
GetConnectionsDb(t) ==
    /\ task[t].pc = "list_db"
    /\ task' = [task EXCEPT ![t] =
          RespondJson(@, 200, [i \in {j \in AllIds : store[j] # NoRow} |->
                                  JsonWithUndefined(store[i], {"password"})])]
    /\ UNCHANGED <<store, nextId, savedQueries, outside, connectionPools, pools, justEvicted>>

\* GET /connections/:id up to the await of storage.getConnection(id).
GetConnectionStart(t, id) ==
    /\ Arrives(t)
    /\ task' = [task EXCEPT ![t] = [@ EXCEPT !.op = "get", !.id = id, !.pc = "get_db"]]
    /\ UNCHANGED <<store, nextId, savedQueries, outside, connectionPools, pools, justEvicted>>

\* The metadata store answers getConnection: no row is 404, a row is sent
\* without its password.
GetConnectionDb(t) ==
    /\ task[t].pc = "get_db"
    /\ task' = [task EXCEPT ![t] =
          IF store[@.id] = NoRow THEN Respond(@, 404, "Connection not found")
          ELSE RespondJson(@, 200, SafeConnection(store[@.id]))]
    /\ UNCHANGED <<store, nextId, savedQueries, outside, connectionPools, pools, justEvicted>>

\* The message of an error the metadata store rejects a statement with.
StorageFailure == "Connection terminated unexpectedly"

\* The positions at which a handler awaits a statement of the metadata store.
StoragePcs ==
    {"list_db", "get_db", "ins_db", "put_read", "upd_db", "del_db", "gcp_read",
     "sq_insert", "sq_update", "sq_delete", "sq_select", "sq_get"}

\* The awaited statement rejects: the handler's catch answers, 400 from the
\* inner catch of POST /connections, 500 from handleError everywhere else.
StorageError(t) ==
    /\ task[t].pc \in StoragePcs
    /\ task' = [task EXCEPT ![t] =
          Respond(@, IF @.pc = "ins_db" THEN 400 ELSE 500, StorageFailure)]
    /\ UNCHANGED <<store, nextId, savedQueries, outside, connectionPools, pools, justEvicted>>

\* One request at a time, RouteRequests of them at most.
Serial(t) == t <= RouteRequests /\ \A u \in Tasks : task[u].pc \in {"idle", "done"}

\* Every route of the API, each handler run from its request to its response.
NextRoutes ==
    \E t \in Tasks :
        \/ Serial(t) /\ GetConnectionsStart(t)
        \/ GetConnectionsDb(t)
        \/ \E id \in ProfileIds : Serial(t) /\ GetConnectionStart(t, id)
        \/ GetConnectionDb(t)
        \/ Serial(t) /\ PostConnections(t, RawOf(ProfileMain))
        \/ CreateDb(t)
        \/ \E id \in ProfileIds : Serial(t) /\ PutConnections(t, id, RawOf([host |-> "db2"]))
        \/ UpdateReadDb(t)
        \/ UpdateProbe(t)
        \/ UpdateDb(t)
        \/ UpdateCont(t)
        \/ \E id \in ProfileIds : Serial(t) /\ DeleteStart(t, id)
        \/ DeleteDb(t)
        \/ DeleteCont(t)
        \/ \E outcome \in Outcomes : DeleteEnd(t, outcome)
        \/ \E raw \in {RawOf(ProfileDown)} \cup BadCreateBodies :
              Serial(t) /\ PostConnectionsTest(t, raw)
        \/ \E outcome \in Outcomes : ProbeConnect(t, outcome)
        \/ \E outcome \in Outcomes : ProbeEndTry(t, outcome)
        \/ \E outcome \in Outcomes : ProbeEndCatch(t, outcome)
        \/ Serial(t) /\ CreateSavedQueryStart(t, 1)
        \/ CreateSavedQueryDb(t)
        \/ \E q \in 1..(t - 1) : Serial(t) /\ UpdateSavedQueryStart(t, q, 1)
        \/ UpdateSavedQueryDb(t)
        \/ \E q \in 1..(t - 1) : Serial(t) /\ DeleteSavedQueryStart(t, q)
        \/ DeleteSavedQueryDb(t)
        \/ Serial(t) /\ GetSavedQueriesStart(t, 1)
        \/ GetSavedQueriesDb(t)
        \/ Serial(t) /\ GetSavedQueryStart(t, 1)
        \/ GetSavedQueryDb(t)
        \/ \E op \in AllDataOps \ {"executeQuery"} : Serial(t) /\ DataStart(t, op, 1)
        \/ \E raw \in RawQueryBodies : Serial(t) /\ PostQuery(t, 1, raw)
        \/ GcpReadDb(t)
        \/ GcpCont(t)
        \/ \E outcome \in Outcomes : QueryDone(t, outcome)
        \/ StorageError(t)

SpecRoutes == Init /\ [][NextRoutes]_vars

\* The routes that read a request body, and the routes that answer with
\* profiles, with every body of the body sets.
NextBodies ==
    \E t \in Tasks :
        \/ Serial(t) /\ GetConnectionsStart(t)
        \/ GetConnectionsDb(t)
        \/ \E id \in ProfileIds : Serial(t) /\ GetConnectionStart(t, id)
        \/ GetConnectionDb(t)
        \/ \E raw \in RawCreateBodies : Serial(t) /\ PostConnections(t, raw)
        \/ CreateDb(t)
        \/ \E id \in ProfileIds, raw \in RawUpdateBodies :
              Serial(t) /\ PutConnections(t, id, raw)
        \/ UpdateReadDb(t)
        \/ UpdateProbe(t)
        \/ UpdateDb(t)
        \/ UpdateCont(t)
        \/ \E raw \in RawCreateBodies : Serial(t) /\ PostConnectionsTest(t, raw)
        \/ \E outcome \in Outcomes : ProbeConnect(t, outcome)
        \/ \E outcome \in Outcomes : ProbeEndTry(t, outcome)
        \/ \E outcome \in Outcomes : ProbeEndCatch(t, outcome)
        \/ \E id \in ProfileIds, raw \in RawQueryBodies : Serial(t) /\ PostQuery(t, id, raw)
        \/ GcpReadDb(t)
        \/ GcpCont(t)
        \/ \E outcome \in Outcomes : QueryDone(t, outcome)

SpecBodies == Init /\ [][NextBodies]_vars

\* --------------------------------------------------------- paginated reader
\* A JavaScript number as far as the reader meets one: an integer, or NaN.
Num(n) == [nan |-> FALSE, n |-> n]
NaN == [nan |-> TRUE, n |-> 0]

\* Text is a sequence of one-character strings.
Digits == <<"0", "1", "2", "3", "4", "5", "6", "7", "8", "9">>
IsDigit(c) == \E i \in 1..Len(Digits) : Digits[i] = c
DigitValue(c) == (CHOOSE i \in 1..Len(Digits) : Digits[i] = c) - 1

RECURSIVE TrimStart(_)
TrimStart(s) == IF s # <<>> /\ Head(s) = " " THEN TrimStart(Tail(s)) ELSE s

RECURSIVE CountDigits(_)
CountDigits(s) ==
    IF s = <<>> THEN 0
    ELSE IF IsDigit(Head(s)) THEN 1 + CountDigits(Tail(s)) ELSE 0

RECURSIVE DigitsValue(_)
DigitsValue(s) ==
    IF s = <<>> THEN 0
    ELSE 10 * DigitsValue(SubSeq(s, 1, Len(s) - 1)) + DigitValue(s[Len(s)])

\* parseInt(s, 10): leading blanks are skipped, a sign is read, then the
\* longest run of digits; without a digit the result is NaN.
ParseInt(str) ==
    LET s == TrimStart(str)
        signed == s # <<>> /\ Head(s) \in {"-", "+"}
        body == IF signed THEN Tail(s) ELSE s
        k == CountDigits(body)
    IN IF k = 0 THEN NaN
       ELSE Num((IF signed /\ Head(s) = "-" THEN -1 ELSE 1) * DigitsValue(SubSeq(body, 1, k)))

RECURSIVE NatToString(_)
NatToString(n) ==
    IF n < 10 THEN <<Digits[n + 1]>>
    ELSE NatToString(n \div 10) \o <<Digits[(n % 10) + 1]>>

\* `${x}` in a template literal.
NumberToString(x) ==
    IF x.nan THEN <<"N", "a", "N">>
    ELSE IF x.n < 0 THEN <<"-">> \o NatToString(-x.n)
    ELSE NatToString(x.n)

\* A query-string parameter: absent, or its text.
Absent == [given |-> FALSE, text |-> <<>>]
Given(text) == [given |-> TRUE, text |-> text]

\* A route that clamps the parameter to 1 or more.
ParamOr_Clamped(param, default) ==
    IF param.given /\ param.text # <<>>
    THEN LET v == ParseInt(param.text) IN IF v.nan \/ v.n < 1 THEN Num(1) ELSE v
    ELSE Num(default)

\* req.query.x ? parseInt(req.query.x, 10) : default
ParamOr(param, default) ==
    IF param.given /\ param.text # <<>> THEN ParseInt(param.text) ELSE Num(default)

\* An offset that counts pages from zero.
Offset_FromPageZero(page, pageSize) ==
    IF page.nan \/ pageSize.nan THEN NaN ELSE Num(page.n * pageSize.n)

\* const offset = (page - 1) * pageSize
Offset(page, pageSize) ==
    IF page.nan \/ pageSize.nan THEN NaN ELSE Num((page.n - 1) * pageSize.n)

\* The rows of the table read, and what the target answers to
\* SELECT * ... LIMIT l OFFSET o: an error for a negative or non-numeric
\* operand, otherwise at most l rows after the first o.
TableRows(n) == [i \in 1..n |-> i]
Min(a, b) == IF a < b THEN a ELSE b
LimitOffsetFails(l, o) == l.nan \/ o.nan \/ l.n < 0 \/ o.n < 0
LimitOffset(rows, l, o) == SubSeq(rows, o.n + 1, Min(Len(rows), o.n + l.n))

\* The parameter texts a client sends.
ParamTexts ==
    {<<>>, <<"0">>, <<"1">>, <<"2">>, <<"3">>, <<"1", "0">>, <<"-", "1">>,
     <<"-", "2">>, <<" ", "2">>, <<"3", "x">>, <<"a">>}
Params == {Absent} \cup {Given(x) : x \in ParamTexts}

ReadRequest(page, pageSize, n) ==
    [pc |-> "request", rawPage |-> page, rawPageSize |-> pageSize, n |-> n,
     page |-> NaN, pageSize |-> NaN, total |-> NaN, limit |-> <<>>, offset |-> <<>>,
     rows |-> <<>>, status |-> 0]

\* GET /data/:connectionId/:table arrives at a server whose target table has
\* n rows.
InitRead ==
    /\ InitInside
    /\ server = NoServer /\ viewer = NoViewer
    /\ read \in {ReadRequest(p, s, n) : p \in Params, s \in Params, n \in 0..MaxRows}

\* The route reads page and pageSize and calls getTableData, which issues the
\* count.
ReadRoute ==
    /\ read.pc = "request"
    /\ read' = [read EXCEPT !.page = ParamOr(read.rawPage, 1),
                            !.pageSize = ParamOr(read.rawPageSize, 50),
                            !.pc = "count"]
    /\ UNCHANGED <<inside, server, viewer>>

\* The count arrives as text and is parsed; offset is computed and the page is
\* requested with LIMIT and OFFSET interpolated into the statement.
ReadCount ==
    /\ read.pc = "count"
    /\ read' = [read EXCEPT !.total = ParseInt(NumberToString(Num(read.n))),
                            !.limit = NumberToString(read.pageSize),
                            !.offset = NumberToString(Offset(read.page, read.pageSize)),
                            !.pc = "data"]
    /\ UNCHANGED <<inside, server, viewer>>

\* The target executes the page statement; the route answers with the rows and
\* the total, or through handleError.
ReadData ==
    /\ read.pc = "data"
    /\ LET l == ParseInt(read.limit)
           o == ParseInt(read.offset)
       IN read' = IF LimitOffsetFails(l, o)
                  THEN [read EXCEPT !.pc = "done", !.status = 500]
                  ELSE [read EXCEPT !.pc = "done", !.status = 200,
                                    !.rows = LimitOffset(TableRows(read.n), l, o)]
    /\ UNCHANGED <<inside, server, viewer>>

NextRead == ReadRoute \/ ReadCount \/ ReadData

SpecRead == InitRead /\ [][NextRead]_vars

\* ----------------------------------------------------------- server startup
\* tryListenOnPort(portToTry, maxAttempts = 5)
maxAttempts == 5

\* process.env.PORT or 5000; process.env.HOST or the platform's default.
StartPorts == {5000, 8080}
Hosts == {"0.0.0.0", "127.0.0.1", "192.168.1.10"}

\* What a call of server.listen leads to: 'listening', or 'error' with a code.
ListenEvents == {"listening", "EADDRINUSE", "ENOTSUP", "EACCES"}

\* startListening(port, useHost): the listeners are replaced and listen is
\* called; `listens` records every call.
startListening(sv, port, useHost) ==
    [sv EXCEPT !.pc = "listen", !.port = port, !.host = useHost,
               !.listens = Append(@, [port |-> port, host |-> useHost])]

\* An error handler that does not count its port retries.
OnError_Uncounted(sv, code) ==
    IF code = "EADDRINUSE"
    THEN startListening(sv, sv.port + 1, sv.host)
    ELSE IF code = "ENOTSUP" /\ sv.host = "0.0.0.0"
    THEN startListening(sv, sv.port, "127.0.0.1")
    ELSE [sv EXCEPT !.pc = "fatal"]

\* An error handler whose host fallback uses up a port retry.
OnError_FallbackCounted(sv, code) ==
    IF code = "EADDRINUSE"
    THEN IF sv.currentAttempt < maxAttempts
         THEN startListening([sv EXCEPT !.currentAttempt = @ + 1], sv.port + 1, sv.host)
         ELSE [sv EXCEPT !.pc = "fatal"]
    ELSE IF code = "ENOTSUP" /\ sv.host = "0.0.0.0"
    THEN startListening([sv EXCEPT !.currentAttempt = @ + 1], sv.port, "127.0.0.1")
    ELSE [sv EXCEPT !.pc = "fatal"]

\* server.once('error', ...): the port after a port in use while attempts are
\* left, 127.0.0.1 after ENOTSUP on 0.0.0.0, and otherwise the error is thrown
\* out of the handler (index.ts) or the process exits (standalone server).
OnError(sv, code) ==
    IF code = "EADDRINUSE"
    THEN IF sv.currentAttempt < maxAttempts
         THEN startListening([sv EXCEPT !.currentAttempt = @ + 1], sv.port + 1, sv.host)
         ELSE [sv EXCEPT !.pc = "fatal"]
    ELSE IF code = "ENOTSUP" /\ sv.host = "0.0.0.0"
    THEN startListening(sv, sv.port, "127.0.0.1")
    ELSE [sv EXCEPT !.pc = "fatal"]

\* tryListenOnPort(startPort) with the configured host.
tryListenOnPort(portToTry, host) ==
    startListening([pc |-> "listen", start |-> portToTry, port |-> portToTry,
                    host |-> host, currentAttempt |-> 0, listens |-> <<>>,
                    error |-> "none"],
                   portToTry, host)

InitServer ==
    /\ InitInside
    /\ read = NoRead /\ viewer = NoViewer
    /\ server \in {tryListenOnPort(p, h) : p \in StartPorts, h \in Hosts}

\* The 'listening' event.
Listening ==
    /\ server.pc = "listen"
    /\ server' = [server EXCEPT !.pc = "up"]
    /\ UNCHANGED <<inside, read, viewer>>

\* The 'error' event.
ListenError(code) ==
    /\ server.pc = "listen"
    /\ code # "listening"
    /\ server' = OnError([server EXCEPT !.error = code], code)
    /\ UNCHANGED <<inside, read, viewer>>

NextServer == Listening \/ \E code \in ListenEvents : ListenError(code)

\* Every call of listen is answered by one of the two events.
SpecServer == InitServer /\ [][NextServer]_vars /\ WF_vars(NextServer)

\* ------------------------------------------------------------- table viewer
\* The choices of the "Rows per page" select, and the tables of a connection.
PageSizes == {10, 25, 50, 100}
TableNames == {"users", "orders"}

Max(a, b) == IF a > b THEN a ELSE b

\* Math.ceil(total / pageSize)
TotalPages(total, pageSize) == (total + pageSize - 1) \div pageSize

\* getPageNumbers() before the ellipses are added: page 1, the pages around
\* the current one, and the last page when there is more than one.
UniquePages(v) ==
    LET totalPages == TotalPages(v.total, v.pageSize)
    IN {1} \cup (Max(2, v.page - 1) .. Min(totalPages - 1, v.page + 1))
           \cup (IF totalPages > 1 THEN {totalPages} ELSE {})

\* sort((a, b) => a - b)
RECURSIVE Sorted(_)
Sorted(S) ==
    IF S = {} THEN <<>>
    ELSE LET m == CHOOSE x \in S : \A y \in S : x <= y IN <<m>> \o Sorted(S \ {m})

\* getPageNumbers(): an ellipsis is put before a page that does not follow its
\* predecessor directly.
RECURSIVE WithEllipsis(_, _)
WithEllipsis(uniquePages, i) ==
    IF i > Len(uniquePages) THEN <<>>
    ELSE (IF i > 1 /\ uniquePages[i] > uniquePages[i - 1] + 1
          THEN <<[kind |-> "ellipsis", pageNum |-> 0]>> ELSE <<>>)
         \o <<[kind |-> "page", pageNum |-> uniquePages[i]]>>
         \o WithEllipsis(uniquePages, i + 1)

getPageNumbers(v) == WithEllipsis(Sorted(UniquePages(v)), 1)

\* A Next button that steps without looking at the total.
NextPage_Unguarded(v) == v.page + 1

\* onClick of PaginationNext
NextPage(v) == IF v.total > v.page * v.pageSize THEN v.page + 1 ELSE v.page

\* The viewer is mounted on a table of `total` rows: page 1, ten rows a page.
InitViewer ==
    /\ InitInside
    /\ read = NoRead /\ server = NoServer
    /\ viewer \in {[pc |-> "shown", tableName |-> t, total |-> n, page |-> 1,
                     pageSize |-> 10, last |-> "mount"] :
                    t \in TableNames, n \in 0..MaxTotal}

\* onClick of PaginationPrevious
ClickPrevious ==
    /\ viewer.pc = "shown"
    /\ viewer' = [viewer EXCEPT !.page = Max(1, @ - 1), !.last = "previous"]
    /\ UNCHANGED <<inside, read, server>>

ClickNext ==
    /\ viewer.pc = "shown"
    /\ viewer' = [viewer EXCEPT !.page = NextPage(viewer), !.last = "next"]
    /\ UNCHANGED <<inside, read, server>>

\* onClick of one of the PaginationLinks rendered from getPageNumbers()
ClickPage(i) ==
    /\ viewer.pc = "shown"
    /\ i \in 1..Len(getPageNumbers(viewer))
    /\ getPageNumbers(viewer)[i].kind = "page"
    /\ viewer' = [viewer EXCEPT !.page = getPageNumbers(viewer)[i].pageNum, !.last = "link"]
    /\ UNCHANGED <<inside, read, server>>

\* onValueChange of the "Rows per page" select
ChangePageSize(value) ==
    /\ viewer.pc = "shown"
    /\ value # viewer.pageSize
    /\ viewer' = [viewer EXCEPT !.pageSize = value, !.page = 1, !.last = "size"]
    /\ UNCHANGED <<inside, read, server>>

\* The tableName prop changes and the effect on [tableName] runs.
ChangeTable(tableName) ==
    /\ viewer.pc = "shown"
    /\ tableName # viewer.tableName
    /\ viewer' = [viewer EXCEPT !.tableName = tableName, !.page = 1, !.last = "table"]
    /\ UNCHANGED <<inside, read, server>>

\* The most entries getPageNumbers() returns: five pages and two ellipses.
NextViewer ==
    \/ ClickPrevious
    \/ ClickNext
    \/ \E i \in 1..7 : ClickPage(i)
    \/ \E value \in PageSizes : ChangePageSize(value)
    \/ \E tableName \in TableNames : ChangeTable(tableName)

SpecViewer == InitViewer /\ [][NextViewer]_vars

\* ------------------------------------------------------------------ claims
IsData(t) == task[t].op \in AllDataOps
Quiescent == \A t \in Tasks : task[t].pc \in {"idle", "done"}
ProbePcs == {"probe_connect", "probe_end_try", "probe_end_catch"}
\* testConnection has returned to the handler of request t.
ProbeReturned(t) == task[t].probe # "none"
\* The pools getConnectionPool has constructed for profile i.
PoolsOf(i) == {x \in Tasks : pools[x].state # "none" /\ ~pools[x].probe /\ pools[x].id = i}
UseAfterEnd == PoolEndedError

\* C1: while no update or delete of profile p is requested, all resolutions of
\* p get the same pool instance and at most one pool is constructed for p,
\* also when the first resolutions of p run concurrently.
C1_SingleConstruction ==
    \A i \in ProfileIds :
        (\A u \in Tasks : task[u].op \in {"update", "delete"} => task[u].id # i)
        => /\ Cardinality(PoolsOf(i)) <= 1
           /\ \A t1, t2 \in Tasks :
                (IsData(t1) /\ IsData(t2) /\ task[t1].id = i /\ task[t2].id = i
                 /\ task[t1].pool # 0 /\ task[t2].pool # 0)
                => task[t1].pool = task[t2].pool

\* C2: a POST /connections whose probe acquired no session never reaches
\* createConnection: it answers 400 and no row is inserted for it.
C2_NoCreateAfterFailedProbe ==
    \A t \in Tasks :
        (task[t].op = "create" /\ ProbeReturned(t) /\ ~task[t].acquired)
        => /\ task[t].pc # "ins_db"
           /\ task[t].pc = "done" => (task[t].status = 400 /\ task[t].id = 0)

C4_NoUseAfterEnd == \A t \in Tasks : IsData(t) => task[t].msg # UseAfterEnd

\* C5: no step of testConnection changes connectionPools, and no probe pool is
\* ever an entry of it.
C5_ProbeLeavesCacheUnchanged ==
    /\ [](\A i \in AllIds : connectionPools[i] # 0 => ~pools[connectionPools[i]].probe)
    /\ [][\A t \in Tasks :
            (task'[t] # task[t] /\ (task[t].pc \in ProbePcs \/ task'[t].pc \in ProbePcs))
            => connectionPools' = connectionPools]_vars

\* C5 witness: probes have returned true and false while a pool was cached.
C5_Witness ==
    /\ connectionPools[1] # 0
    /\ \E t \in Tasks : task[t].probe = "true"
    /\ \E t \in Tasks : task[t].probe = "false"

\* C6: when testConnection has returned, end() has been called on its pool, on
\* the success path, the failure path and after a rejected first end().
C6_ProbePoolEnded ==
    \A t \in Tasks :
        ProbeReturned(t)
        => pools[t].probe /\ pools[t].endCalls >= 1 /\ pools[t].state = "ended"

\* C6 witness: the three exit paths: acquired and ended; not acquired; acquired
\* with the first end() rejected.
C6_Witness ==
    /\ \E t \in Tasks : task[t].probe = "true"
    /\ \E t \in Tasks : task[t].probe = "false" /\ ~task[t].acquired
    /\ \E t \in Tasks : task[t].probe = "false" /\ task[t].acquired /\ pools[t].endCalls = 2

\* C7: testConnection returns true only after a session was acquired, returns
\* false whenever none was, and never throws.
C7_ProbeResult ==
    \A t \in Tasks :
        ProbeReturned(t)
        => /\ task[t].probe \in {"true", "false"}
           /\ task[t].probe = "true" => task[t].acquired
           /\ ~task[t].acquired => task[t].probe = "false"

\* C7 witness: a probe of a reachable target returned true and a probe that
\* acquired no session returned false.
C7_Witness ==
    /\ \E t \in Tasks : task[t].probe = "true" /\ task[t].acquired
    /\ \E t \in Tasks : task[t].probe = "false" /\ ~task[t].acquired
                        /\ pools[t].config.host = "down"

\* C8: whenever an entry is removed from the cache, end() has been called on
\* the pool it held.
C8_EvictionClosesPool ==
    [][\A i \in AllIds :
          (connectionPools[i] # 0 /\ connectionPools'[i] = 0)
          => pools'[connectionPools[i]].state = "ended"]_vars

\* C9: when no call is in flight (and every probe of an update succeeded), a
\* pool cached for a stored profile was built from the profile's stored
\* connection fields.
C9_CachedPoolMatchesProfile ==
    (Quiescent /\ \A t \in Tasks : task[t].op = "update" => task[t].probe \in {"none", "true"})
    => \A i \in AllIds :
          (connectionPools[i] # 0 /\ store[i] # NoRow)
          => pools[connectionPools[i]].config = PoolConfig(store[i])

\* C10: when no call is in flight and every deleteConnection has returned, each
\* cached key is the id of a stored profile.
C10_CachedKeysAreStored ==
    (Quiescent /\ \A t \in Tasks : task[t].op = "delete" => task[t].status # 500)
    => \A i \in AllIds : connectionPools[i] # 0 => store[i] # NoRow

\* C11: the cache entries of two profile ids are never the same pool instance,
\* and resolutions of two profile ids never return the same instance.
C11_DistinctPoolsPerProfile ==
    /\ \A i, j \in AllIds :
          (i # j /\ connectionPools[i] # 0) => connectionPools[i] # connectionPools[j]
    /\ \A t1, t2 \in Tasks :
          (IsData(t1) /\ IsData(t2) /\ task[t1].id # task[t2].id
           /\ task[t1].pool # 0 /\ task[t2].pool # 0)
          => task[t1].pool # task[t2].pool

\* C11 witness: pools are cached for two profiles and both have been returned.
C11_Witness ==
    /\ connectionPools[1] # 0 /\ connectionPools[2] # 0
    /\ \E t1, t2 \in Tasks :
          /\ IsData(t1) /\ task[t1].id = 1 /\ task[t1].pool # 0
          /\ IsData(t2) /\ task[t2].id = 2 /\ task[t2].pool # 0

\* C12: a resolution that misses the cache and reads no stored profile fails
\* with the not-found error, constructs no pool and leaves the cache as it was.
C12_MissWithoutProfile ==
    /\ [](\A t \in Tasks :
            (IsData(t) /\ task[t].pc = "done" /\ task[t].msg = "Connection not found")
            => /\ task[t].status >= 400
               /\ task[t].pool = 0
               /\ pools[t].state = "none"
               /\ \A i \in AllIds : connectionPools[i] # t)
    /\ [][\A t \in Tasks :
            (task[t].pc = "gcp_cont" /\ task[t].conn = NoRow /\ task'[t] # task[t])
            => /\ task'[t].pc = "done"
               /\ task'[t].msg = "Connection not found"
               /\ connectionPools' = connectionPools
               /\ pools' = pools]_vars

\* C12 witness: a resolution of an id without a profile has failed while the
\* pool of another id sits in the cache.
C12_Witness ==
    \E t \in Tasks :
        /\ IsData(t) /\ task[t].pc = "done" /\ task[t].msg = "Connection not found"
        /\ task[t].id = 2 /\ connectionPools[1] # 0

ConnectionFields == {"host", "port", "database", "username", "password", "ssl"}

\* The update body gives a connection field a value other than the stored one.
ChangesConnection(u, row) ==
    row # NoRow /\ \E f \in ConnectionFields \cap DOMAIN u : u[f] # row[f]

\* C14: when PUT reaches the update statement with a body that changes one of
\* the six connection fields of the stored profile, the probe has run; with a
\* body that holds only the display name, no probe has run.
C14_ProbeBeforePersist ==
    \A t \in Tasks :
        (task[t].op = "update" /\ task[t].pc = "upd_db")
        => /\ ChangesConnection(task[t].body, store[task[t].id]) => task[t].probe # "none"
           /\ DOMAIN task[t].body = {"name"} => task[t].probe = "none"

\* C15: a PUT whose probe returned without having acquired a session never
\* reaches updateConnection and is answered 400.
C15_FailedProbeRejectsUpdate ==
    \A t \in Tasks :
        (task[t].op = "update" /\ ProbeReturned(t) /\ ~task[t].acquired)
        => /\ task[t].pc \notin {"upd_db", "upd_cont"}
           /\ task[t].pc = "done" => task[t].status = 400

\* C16: an updateConnection whose body holds none of the six connection fields,
\* or whose statement matched no row, leaves the cache entry of its id as it is.
C16_OtherUpdatesKeepPool ==
    [][\A t \in Tasks :
          (/\ task[t].op = "update" /\ task[t].pc = "upd_cont" /\ task'[t].pc = "done"
           /\ (~task[t].found \/ DOMAIN task[t].body \cap ConnectionFields = {}))
          => connectionPools'[task[t].id] = connectionPools[task[t].id]]_vars

\* C17: POST /connections/test answers success only when the probe acquired a
\* session.
C17_TestReportsProbeOutcome ==
    \A t \in Tasks :
        (task[t].op = "test" /\ task[t].pc = "done" /\ task[t].msg = "success")
        => task[t].acquired

\* C18: executeQuery issues its statement once; when the driver rejects it the
\* call fails with "Query execution failed: " followed by the driver's message,
\* issues nothing more, and leaves the cache and its pool as they are.
C18_ExecuteQueryOnce ==
    /\ [](\A t \in Tasks :
            task[t].op = "executeQuery"
            => /\ task[t].issued <= 1
               /\ task[t].pc = "query" => task[t].issued = 1
               /\ (task[t].pc = "done" /\ task[t].pool # 0) => task[t].issued = 1
               /\ (task[t].pc = "done" /\ task[t].pool # 0 /\ task[t].status # 200)
                  => /\ task[t].status = 500
                     /\ task[t].msg \in {"Query execution failed: " \o DriverError,
                                         "Query execution failed: " \o PoolEndedError})
    /\ [][\A t \in Tasks :
            (/\ task[t].op = "executeQuery" /\ task[t].pc = "query"
             /\ task'[t].pc = "done" /\ task'[t].status # 200)
            => /\ task'[t].msg = "Query execution failed: " \o DriverError
               /\ task'[t].issued = task[t].issued
               /\ connectionPools' = connectionPools
               /\ pools' = pools]_vars

\* C18 witness: an executeQuery has failed on a driver error and the pool it
\* queried is still the cached one, open.
C18_Witness ==
    \E t \in Tasks :
        /\ task[t].op = "executeQuery" /\ task[t].pc = "done"
        /\ task[t].status = 500 /\ task[t].issued = 1
        /\ task[t].msg = "Query execution failed: " \o DriverError
        /\ connectionPools[task[t].id] = task[t].pool
        /\ pools[task[t].pool].state = "open"

\* C19: a data request whose resolution found no profile is answered 404.
C19_NotFoundSurfaced ==
    \A t \in Tasks :
        (IsData(t) /\ task[t].pc = "done" /\ task[t].msg = "Connection not found")
        => task[t].status = 404

\* C20: getTableSchema answers with a descriptor exactly when all five of its
\* queries have succeeded; when one fails the call fails.
C20_SchemaAllOrNothing ==
    \A t \in Tasks :
        (task[t].op = "getTableSchema" /\ task[t].pc = "done")
        => /\ task[t].status = 200 <=> task[t].succeeded = 5
           /\ task[t].status = 200 => task[t].issued = 5
           /\ task[t].succeeded < 5 => task[t].status >= 400

\* C20 witness: one getTableSchema has returned after five queries, another has
\* failed on its row count after four.
C20_Witness ==
    \E t1, t2 \in Tasks :
        /\ task[t1].op = "getTableSchema" /\ task[t1].pc = "done"
        /\ task[t1].status = 200 /\ task[t1].succeeded = 5
        /\ task[t2].op = "getTableSchema" /\ task[t2].pc = "done"
        /\ task[t2].status = 500 /\ task[t2].succeeded = 4 /\ task[t2].issued = 5

\* C21: for positive page and pageSize the read answers total = N and
\* min(pageSize, max(0, N - (page-1)*pageSize)) rows, the rows after the first
\* (page-1)*pageSize of the table.
C21_PageOfRows ==
    (read.pc = "done" /\ ~read.page.nan /\ ~read.pageSize.nan
     /\ read.page.n > 0 /\ read.pageSize.n > 0)
    => LET skip == (read.page.n - 1) * read.pageSize.n
           left == IF read.n > skip THEN read.n - skip ELSE 0
       IN /\ read.status = 200
          /\ read.total = Num(read.n)
          /\ Len(read.rows) = Min(read.pageSize.n, left)
          /\ \A i \in 1..Len(read.rows) : read.rows[i] = skip + i

\* C21 witness: page 3 of a 25-row table read ten rows at a time has five rows.
C21_Witness ==
    /\ read.pc = "done" /\ read.n = 25
    /\ read.rawPage = Given(<<"3">>) /\ read.rawPageSize = Given(<<"1", "0">>)
    /\ Len(read.rows) = 5 /\ read.total = Num(25)

\* C22: an absent page is read as 1 and an absent pageSize as 50; a zero or
\* negative parameter is passed through, so the statement holds pageSize as its
\* LIMIT and (page-1)*pageSize as its OFFSET, whatever their sign.
C22_ParametersPassThrough ==
    LET RawInt(p) ==
            IF Len(p.text) = 1 THEN DigitValue(p.text[1])
            ELSE IF p.text[1] = "-" THEN -DigitValue(p.text[2])
            ELSE 10 * DigitValue(p.text[1]) + DigitValue(p.text[2])
        Plain(p) == p.given /\ p.text \in {<<"0">>, <<"1">>, <<"2">>, <<"3">>, <<"1", "0">>,
                                            <<"-", "1">>, <<"-", "2">>}
        Expected(p, default) == IF ~p.given THEN default ELSE RawInt(p)
    IN (read.pc \in {"data", "done"}
        /\ (Plain(read.rawPage) \/ ~read.rawPage.given)
        /\ (Plain(read.rawPageSize) \/ ~read.rawPageSize.given))
       => LET page == Expected(read.rawPage, 1)
              pageSize == Expected(read.rawPageSize, 50)
          IN /\ read.page = Num(page)
             /\ read.pageSize = Num(pageSize)
             /\ read.limit = NumberToString(Num(pageSize))
             /\ read.offset = NumberToString(Num((page - 1) * pageSize))

\* C22 witness: page 0 with pageSize 2 was issued with LIMIT 2 OFFSET -2.
C22_Witness ==
    /\ read.pc = "done"
    /\ read.rawPage = Given(<<"0">>) /\ read.rawPageSize = Given(<<"2">>)
    /\ read.limit = <<"2">> /\ read.offset = <<"-", "2">>

C28_HostFallbackOnce ==
    /\ [](Cardinality({i \in 2..Len(server.listens) :
                         server.listens[i].host # server.listens[i - 1].host}) <= 1)
    /\ [][(server.pc = "listen" /\ server'.pc # "up" /\ server' # server /\ server'.error = "ENOTSUP")
          => IF server.host = "0.0.0.0"
             THEN /\ server'.pc = "listen"
                  /\ server'.port = server.port
                  /\ server'.host = "127.0.0.1"
                  /\ server'.currentAttempt = server.currentAttempt
                  /\ Len(server'.listens) = Len(server.listens) + 1
             ELSE /\ server'.pc = "fatal"
                  /\ server'.listens = server.listens]_vars
    /\ [][(server.pc = "listen" /\ server'.pc # "up" /\ server' # server /\ server'.error = "EACCES")
          => (server'.pc = "fatal" /\ server'.listens = server.listens)]_vars
    /\ [](server.pc = "fatal" /\ server.error = "EADDRINUSE"
          => server.currentAttempt = maxAttempts)

\* C28 witness: the host fell back once, five ports later were in use, and a
\* second ENOTSUP ended startup.
C28_Witness ==
    /\ server.pc = "fatal" /\ server.error = "ENOTSUP"
    /\ server.host = "127.0.0.1"
    /\ server.listens[1].host = "0.0.0.0"
    /\ server.currentAttempt = maxAttempts

\* C30: the viewer's page stays between 1 and the last page of the total shown;
\* a change of page size or of table puts it back to 1; Next on the last page
\* changes nothing.
C30_PageInRange ==
    /\ [](viewer.pc = "shown"
          => /\ viewer.page >= 1
             /\ viewer.page <= Max(1, TotalPages(viewer.total, viewer.pageSize))
             /\ Len(getPageNumbers(viewer)) <= 7)
    /\ [][(viewer'.pageSize # viewer.pageSize \/ viewer'.tableName # viewer.tableName)
          => viewer'.page = 1]_vars
    /\ [][(viewer'.last = "next"
           /\ viewer.page >= TotalPages(viewer.total, viewer.pageSize))
          => viewer'.page = viewer.page]_vars

\* C30 witness: the viewer stands on the last of several pages, reached after a
\* change of page size.
C30_Witness ==
    /\ viewer.pc = "shown" /\ viewer.pageSize = 25 /\ viewer.total = 120
    /\ viewer.page = 5 /\ viewer.last = "next"

\* C23: an existing cache entry is removed or replaced, and a cached pool is
\* closed, only in a step of an updateConnection or deleteConnection of its id.
C23_ReadPathsNeverEvict ==
    [][\A i \in AllIds :
          (/\ connectionPools[i] # 0
           /\ \/ connectionPools'[i] # connectionPools[i]
              \/ pools'[connectionPools[i]].state # pools[connectionPools[i]].state)
          => \E t \in Tasks :
                /\ task[t].op \in {"update", "delete"}
                /\ task[t].id = i
                /\ task'[t] # task[t]]_vars

\* C29: every saved query belongs to no profile or to a stored one, and
\* getSavedQueries returns only such rows; so none of a deleted profile.
C29_SavedQueriesNeverDangle ==
    /\ [](\A q \in Tasks :
            savedQueries[q] # NoRow
            => \/ savedQueries[q].connectionId = NoConnection
               \/ store[savedQueries[q].connectionId] # NoRow)
    /\ [][\A t \in Tasks :
            (task[t].pc = "sq_select" /\ task'[t].pc = "done")
            => \A q \in task'[t].result :
                  /\ savedQueries[q] # NoRow
                  /\ \/ savedQueries[q].connectionId = NoConnection
                     \/ store[savedQueries[q].connectionId] # NoRow]_vars

\* C29 witness: a saved query of profile 1 was stored, profile 1 was deleted,
\* and a later getSavedQueries(1) returned nothing.
C29_Witness ==
    \E c, d, g \in Tasks :
        /\ task[c].op = "createSavedQuery" /\ task[c].status = 201
        /\ task[c].body = NoBody /\ savedQueries[c] = NoRow
        /\ task[d].op = "delete" /\ task[d].id = 1 /\ task[d].status = 204
        /\ d > c /\ g > d
        /\ task[g].op = "getSavedQueries" /\ task[g].id = 1
        /\ task[g].pc = "done" /\ task[g].result = {}

\* The step answers request t with 400 and message m and touches nothing.
RejectedUntouched(t, m) ==
    /\ task'[t].pc = "done" /\ task'[t].status = 400 /\ task'[t].msg = m
    /\ task'[t].sent = 1
    /\ task'[t].pool = 0 /\ task'[t].probe = "none" /\ task'[t].issued = 0
    /\ UNCHANGED <<store, nextId, connectionPools, pools, savedQueries>>

\* C24: a create, test or update request whose body fails the schema, and a
\* query request whose query is missing, not a string or empty, is answered
\* 400 with the validation message in the step it arrives in: no probe pool
\* is built, no pool resolved, no query issued, nothing stored or cached.
C24_ValidationFirst ==
    [][\A t \in Tasks, id \in ProfileIds :
          /\ \A raw \in BadCreateBodies :
                PostConnections(t, raw) \/ PostConnectionsTest(t, raw)
                    => RejectedUntouched(t, "Validation error")
          /\ \A raw \in BadUpdateBodies :
                PutConnections(t, id, raw) => RejectedUntouched(t, "Validation error")
          /\ \A raw \in BadQueryBodies :
                PostQuery(t, id, raw) => RejectedUntouched(t, "Query is required")]_vars

\* A malformed profile and a request without a query have both been answered.
C24_Witness ==
    \E t, u \in Tasks :
        /\ task[t].op = "create" /\ task[t].msg = "Validation error"
        /\ task[u].op = "executeQuery" /\ task[u].msg = "Query is required"

\* The stored rows with every password replaced by pw.
WithPasswords(rows, pw) ==
    [i \in DOMAIN rows |-> IF rows[i] = NoRow THEN NoRow ELSE [rows[i] EXCEPT !.password = pw]]

\* The body request t is answered with when the store holds rows.
ConnectionResponse(tk, rows) ==
    IF tk.op = "list"
    THEN [i \in {j \in DOMAIN rows : rows[j] # NoRow} |->
             JsonWithUndefined(rows[i], {"password"})]
    ELSE SafeConnection(rows[tk.id])

Settles(t) ==
    \/ GetConnectionsDb(t) \/ GetConnectionDb(t) \/ CreateDb(t)
    \/ UpdateReadDb(t) \/ UpdateProbe(t) \/ UpdateDb(t) \/ UpdateCont(t)
    \/ DeleteDb(t) \/ DeleteCont(t) \/ \E outcome \in Outcomes : DeleteEnd(t, outcome)
    \/ \E outcome \in Outcomes : ProbeConnect(t, outcome)
    \/ \E outcome \in Outcomes : ProbeEndTry(t, outcome)
    \/ \E outcome \in Outcomes : ProbeEndCatch(t, outcome)
    \/ CreateSavedQueryDb(t) \/ UpdateSavedQueryDb(t) \/ DeleteSavedQueryDb(t)
    \/ GetSavedQueriesDb(t) \/ GetSavedQueryDb(t)
    \/ GcpReadDb(t) \/ GcpCont(t) \/ \E outcome \in Outcomes : QueryDone(t, outcome)
    \/ StorageError(t)

\* C26: a handler that has ended has sent exactly one response, a handler
\* that has not ended has sent none and has a step to take (the call it
\* awaits can settle), and a response with an error status has a message.
C26_ExactlyOneResponse ==
    \A t \in Tasks :
        /\ task[t].pc = "done" => task[t].sent = 1
        /\ task[t].pc # "done" => task[t].sent = 0
        /\ task[t].pc \notin {"idle", "done"} => ENABLED Settles(t)
        /\ task[t].status >= 400 => task[t].msg # ""

\* Requests have ended in a not-found answer and in a storage error.
C26_Witness ==
    \E t, u \in Tasks :
        /\ task[t].pc = "done" /\ task[t].op = "delete" /\ task[t].status = 404
        /\ task[u].pc = "done" /\ task[u].status = 500 /\ task[u].msg = StorageFailure

====
